---- MODULE Spec2Model ----
(***************************************************************************)
(* Model of the testify test runner (testify_core::runner::run, organize)  *)
(* together with the registration constructors and the status mapping      *)
(* generated by the testify_macros attribute macros.                       *)
(*                                                                         *)
(* Strings that are compared or glob-matched character by character (test  *)
(* names, glob patterns) are sequences of one-character strings; tags and  *)
(* case labels are one-character strings.  An Option<T> is a sequence of    *)
(* length 0 (None) or 1 (Some).                                            *)
(***************************************************************************)
EXTENDS Naturals, Sequences, FiniteSets

VARIABLES
    TESTS,      \* testify_core::TESTS, the registered Test descriptors
    SETUP,      \* testify_core::SETUP, Option<fn()>
    CLEANUP,    \* testify_core::CLEANUP, Option<fn()>
    pc,         \* position of the process
    toggle,     \* is DO_NOT_MANUALLY_SET_TESTIFY_ARE_TESTS_BEING_RUN set
    cfgvar,     \* DO_NOT_MANUALLY_SET_TESTIFY_CONFIG: absent, garbage or valid
    config,     \* the TestifyConfig the variable deserializes to
    groups,     \* run's local `groups`
    pos,        \* position of the three nested loops of run
    failures,   \* run's local `failures`
    successes,  \* run's local `successes`
    log,        \* history: hook invocations and test executions, in order
    stdout,     \* the lines run has printed about the tests, in order
    atStart,    \* history: the registries as main found them
    hookCtors,  \* history: the hook constructors run so far, in order
    calls,      \* how many times run was called in this process
    held,       \* the registries whose mutex the thread of run holds
    exitCode    \* Option: the process exit status, None while it is alive

vars == <<TESTS, SETUP, CLEANUP, pc, toggle, cfgvar, config, groups, pos,
          failures, successes, log, stdout, atStart, hookCtors, calls,
          held, exitCode>>

----------------------------------------------------------------------------
(* Bounds of the model *)

\* Most test functions registered before a run that is explored to its end.
MaxTests == 3

\* Most test functions in a registry that organize is applied to.
MaxOrgTests == 3

----------------------------------------------------------------------------
(* Strings and their orderings *)

None == <<>>

Some(v) == <<v>>

\* Byte value of a character, the order of str::cmp.
Code(c) ==
    CASE c = "*" -> 42
      [] c = "1" -> 49
      [] c = "2" -> 50
      [] c = "?" -> 63
      [] c = "[" -> 91
      [] c = "a" -> 97
      [] c = "b" -> 98
      [] c = "x" -> 120
      [] c = "y" -> 121

Less == "Less"

Equal == "Equal"

Greater == "Greater"

CmpChar(c, d) ==
    IF Code(c) < Code(d) THEN Less
    ELSE IF Code(c) > Code(d) THEN Greater
    ELSE Equal

\* Lexicographic comparison of two sequences of characters: String::cmp on
\* names, Vec<String>::cmp on tag lists, Option<String>::cmp on cases
\* (None, the empty sequence, is less than every Some).
RECURSIVE CmpSeq(_, _)
CmpSeq(s, t) ==
    IF s = <<>> THEN (IF t = <<>> THEN Equal ELSE Less)
    ELSE IF t = <<>> THEN Greater
    ELSE IF CmpChar(Head(s), Head(t)) # Equal THEN CmpChar(Head(s), Head(t))
    ELSE CmpSeq(Tail(s), Tail(t))

Contains(seq, x) == \E i \in 1..Len(seq) : seq[i] = x

----------------------------------------------------------------------------
(* glob::Pattern as used by run and organize *)

\* Number of consecutive "*" at the front of p.
RECURSIVE Stars(_)
Stars(p) ==
    IF p # <<>> /\ Head(p) = "*" THEN 1 + Stars(Tail(p)) ELSE 0

\* glob::Pattern::new(p).is_ok(): `first` is true at the first character.
\* A "[" that is never closed is an invalid range pattern; three or more
\* stars are an error; "**" must be a whole path component.
RECURSIVE PatternOk(_, _)
PatternOk(p, first) ==
    IF p = <<>> THEN TRUE
    ELSE IF Head(p) = "[" THEN FALSE
    ELSE IF Head(p) = "*" THEN
        IF Stars(p) > 2 THEN FALSE
        ELSE IF Stars(p) = 2 THEN first /\ Len(p) = 2
        ELSE PatternOk(Tail(p), FALSE)
    ELSE PatternOk(Tail(p), FALSE)

\* pattern.matches(name) for a valid pattern.
RECURSIVE Matches(_, _)
Matches(p, s) ==
    IF p = <<>> THEN s = <<>>
    ELSE IF Head(p) = "*" THEN
        Matches(Tail(p), s) \/ (s # <<>> /\ Matches(p, Tail(s)))
    ELSE IF Head(p) = "?" THEN s # <<>> /\ Matches(Tail(p), Tail(s))
    ELSE s # <<>> /\ Head(s) = Head(p) /\ Matches(Tail(p), Tail(s))

\* The pattern text run compiles: the name filter, or "*" when there is none.
PatternText(cfg) ==
    IF cfg.name_filter # None THEN cfg.name_filter[1] ELSE <<"*">>

----------------------------------------------------------------------------
(* organize *)

\* Keep requiring one of config.tags instead of all of them.
KeepAnyTag(test, cfg) ==
    /\ (cfg.tags = <<>> \/ \E i \in 1..Len(cfg.tags) : Contains(test.tags, cfg.tags[i]))
    /\ \A i \in 1..Len(cfg.exclude_tags) : ~Contains(test.tags, cfg.exclude_tags[i])
    /\ Matches(PatternText(cfg), test.name)

\* The closure passed to filter().
Keep(test, cfg) ==
    /\ \A i \in 1..Len(cfg.tags) : Contains(test.tags, cfg.tags[i])
    /\ \A i \in 1..Len(cfg.exclude_tags) : ~Contains(test.tags, cfg.exclude_tags[i])
    /\ Matches(PatternText(cfg), test.name)

RECURSIVE Filter(_, _)
Filter(tests, cfg) ==
    IF tests = <<>> THEN <<>>
    ELSE IF Keep(Head(tests), cfg) THEN <<Head(tests)>> \o Filter(Tail(tests), cfg)
    ELSE Filter(Tail(tests), cfg)

\* Compare without its last step: the case labels are not compared.
CompareNoCase(a, b) ==
    IF CmpSeq(a.tags, b.tags) # Equal THEN CmpSeq(a.tags, b.tags)
    ELSE CmpSeq(a.name, b.name)

\* Compare looking at the names before the tags.
CompareNameFirst(a, b) ==
    IF CmpSeq(a.name, b.name) # Equal THEN CmpSeq(a.name, b.name)
    ELSE IF CmpSeq(a.tags, b.tags) # Equal THEN CmpSeq(a.tags, b.tags)
    ELSE CmpSeq(a.case, b.case)

\* Compare putting a test without a case label behind the labelled ones.
CompareNoneLast(a, b) ==
    IF CmpSeq(a.tags, b.tags) # Equal THEN CmpSeq(a.tags, b.tags)
    ELSE IF CmpSeq(a.name, b.name) # Equal THEN CmpSeq(a.name, b.name)
    ELSE IF a.case = None /\ b.case # None THEN Greater
    ELSE IF a.case # None /\ b.case = None THEN Less
    ELSE CmpSeq(a.case, b.case)

\* The comparator passed to sort_by.
Compare(a, b) ==
    IF CmpSeq(a.tags, b.tags) # Equal THEN CmpSeq(a.tags, b.tags)
    ELSE IF CmpSeq(a.name, b.name) # Equal THEN CmpSeq(a.name, b.name)
    ELSE CmpSeq(a.case, b.case)

\* Insert t behind every element that is not greater than it.
RECURSIVE Insert(_, _)
Insert(sorted, t) ==
    IF sorted = <<>> THEN <<t>>
    ELSE IF Compare(t, Head(sorted)) = Less THEN <<t>> \o sorted
    ELSE <<Head(sorted)>> \o Insert(Tail(sorted), t)

\* slice::sort_by is a stable sort: equal elements keep their order.
RECURSIVE SortFrom(_, _)
SortFrom(sorted, rest) ==
    IF rest = <<>> THEN sorted
    ELSE SortFrom(Insert(sorted, Head(rest)), Tail(rest))

SortBy(tests) == SortFrom(<<>>, tests)

NewPlan(test) == [name |-> test.name, cases |-> <<test>>]

\* NewGroup pushing the group with no plan in it.
NewGroupNoPlan(test) == [tags |-> test.tags, test_plans |-> <<>>]

NewGroup(test) == [tags |-> test.tags, test_plans |-> <<NewPlan(test)>>]

\* Replace the last element of a non-empty sequence.
SetLast(seq, v) == [seq EXCEPT ![Len(seq)] = v]

\* Bucket opening a new plan for every test that stays in the last group.
BucketPlanPerTest(acc, test) ==
    IF acc.panicked THEN acc
    ELSE IF acc.result # <<>> /\ acc.result[Len(acc.result)].tags = test.tags THEN
        LET last_group == acc.result[Len(acc.result)] IN
        [acc EXCEPT !.result = SetLast(acc.result,
            [last_group EXCEPT !.test_plans = Append(last_group.test_plans, NewPlan(test))])]
    ELSE [acc EXCEPT !.result = Append(acc.result, NewGroup(test))]

\* One iteration of the bucketing loop; acc.panicked records the branch
\* panic!("This code shouldn't be running.").
Bucket(acc, test) ==
    LET result == acc.result IN
    IF acc.panicked THEN acc
    ELSE IF result # <<>> THEN
        LET last_group == result[Len(result)] IN
        IF last_group.tags = test.tags THEN
            IF last_group.test_plans # <<>> THEN
                LET last_test == last_group.test_plans[Len(last_group.test_plans)] IN
                IF last_test.name = test.name THEN
                    [acc EXCEPT !.result = SetLast(result,
                        [last_group EXCEPT !.test_plans = SetLast(last_group.test_plans,
                            [last_test EXCEPT !.cases = Append(last_test.cases, test)])])]
                ELSE
                    [acc EXCEPT !.result = SetLast(result,
                        [last_group EXCEPT !.test_plans =
                            Append(last_group.test_plans, NewPlan(test))])]
            ELSE [acc EXCEPT !.panicked = TRUE]
        ELSE [acc EXCEPT !.result = Append(result, NewGroup(test))]
    ELSE [acc EXCEPT !.result = Append(result, NewGroup(test))]

RECURSIVE BucketAll(_, _)
BucketAll(acc, tests) ==
    IF tests = <<>> THEN acc
    ELSE BucketAll(Bucket(acc, Head(tests)), Tail(tests))

organize(tests, cfg) ==
    BucketAll([result |-> <<>>, panicked |-> FALSE], SortBy(Filter(tests, cfg)))

----------------------------------------------------------------------------
(* The program under test: its #[testify::test] functions and hooks *)

\* Attributes of each declared test function: what #[testify::test(...)]
\* was given, and the return type of its body from the outside in:
\* <<"Result", "Option", "()">> is Result<Option<()>, E>.
Decl(f) ==
    CASE f = "f1" -> [name |-> <<"x">>, case |-> None, tags |-> <<"a", "b">>,
                      should_panic |-> FALSE, should_fail |-> FALSE, returns |-> <<"Result", "()">>]
      [] f = "f2" -> [name |-> <<"x">>, case |-> Some("1"), tags |-> <<"a", "b">>,
                      should_panic |-> FALSE, should_fail |-> TRUE, returns |-> <<"Result", "Option", "()">>]
      [] f = "f3" -> [name |-> <<"x">>, case |-> Some("2"), tags |-> <<"a", "b">>,
                      should_panic |-> FALSE, should_fail |-> FALSE, returns |-> <<"()">>]
      [] f = "f4" -> [name |-> <<"y">>, case |-> None, tags |-> <<>>,
                      should_panic |-> TRUE, should_fail |-> FALSE, returns |-> <<"Option", "Result", "()">>]
      [] f = "f5" -> [name |-> <<"x", "y">>, case |-> Some("1"), tags |-> <<"b", "a">>,
                      should_panic |-> FALSE, should_fail |-> FALSE, returns |-> <<"()">>]
      [] f = "f6" -> [name |-> <<"x">>, case |-> Some("1"), tags |-> <<"a", "b">>,
                      should_panic |-> FALSE, should_fail |-> FALSE, returns |-> <<"()">>]
      [] f = "f7" -> [name |-> <<"x", "y">>, case |-> None, tags |-> <<"b">>,
                      should_panic |-> FALSE, should_fail |-> FALSE, returns |-> <<"()">>]
      [] f = "f8" -> [name |-> <<"x">>, case |-> None, tags |-> <<>>,
                      should_panic |-> FALSE, should_fail |-> FALSE, returns |-> <<"()">>]

\* Every declared test function.
TestFns == {"f1", "f2", "f3", "f4", "f5", "f6", "f7", "f8"}

\* The test functions of the programs whose whole run is explored.
RunFns == {"f1", "f2", "f4", "f5"}

SetupFns == {"s1", "s2"}

CleanupFns == {"c1", "c2"}

\* The Test pushed by __testify_register_<fn>.
Descriptor(f) ==
    [name |-> Decl(f).name, case |-> Decl(f).case, tags |-> Decl(f).tags,
     function |-> f]

\* The values of a return type, each written as its constructors from the
\* outside in: <<"Ok", "None">> is Ok(None), <<"Some", "Err">> is Some(Err(e)).
RECURSIVE Values(_)
Values(type) ==
    IF Head(type) = "()" THEN {<<"()">>}
    ELSE IF Head(type) = "Option"
        THEN {<<"None">>} \cup {<<"Some">> \o v : v \in Values(Tail(type))}
        ELSE {<<"Err">>} \cup {<<"Ok">> \o v : v \in Values(Tail(type))}

\* What catch_unwind can return for the body of a test function: Err when
\* the body panicked (None here), or Ok(r) with the value r it returned.
RawOutcomes(f) == {None} \cup {Some(r) : r \in Values(Decl(f).returns)}

\* A hook either returns or panics.
HookOutcomes == {"return", "panic"}

----------------------------------------------------------------------------
(* TestStatus and the wrapper generated by #[testify::test] *)

Passed == "Passed"

Panicked == "Panicked"

NotPanicked == "NotPanicked"

Failed == "Failed"

NotFailed == "NotFailed"

TestStatus == {Passed, Panicked, NotPanicked, Failed, NotFailed}

\* success looking at the outermost variant only.
successOuterOnly(r) == Head(r) \in {"()", "Ok", "Some"}

\* TestTermination::success for (), Result<T, E> and Option<T>.
RECURSIVE success(_)
success(r) ==
    CASE Head(r) = "()" -> TRUE
      [] Head(r) = "Ok" -> success(Tail(r))
      [] Head(r) = "Err" -> FALSE
      [] Head(r) = "Some" -> success(Tail(r))
      [] Head(r) = "None" -> FALSE

\* The arm of the match the result of catch_unwind takes, and in the arm
\* Ok(r) the value of `let success = r.success()`.
Raw(result) ==
    IF result = None THEN "panic"
    ELSE IF success(result[1]) THEN "success" ELSE "failure"

\* Status without the early return of NotPanicked: a should_panic test that
\* returns normally is judged by its result.
StatusNoNotPanicked(raw, should_panic, should_fail) ==
    IF raw = "panic" THEN
        (IF should_panic THEN Passed ELSE Panicked)
    ELSE
        LET succeeded == (raw = "success") IN
        IF should_fail THEN (IF succeeded THEN NotFailed ELSE Passed)
        ELSE (IF succeeded THEN Passed ELSE Failed)

\* The match on the result of catch_unwind.
Status(raw, should_panic, should_fail) ==
    IF raw = "panic" THEN
        (IF should_panic THEN Passed ELSE Panicked)
    ELSE
        LET succeeded == (raw = "success") IN
        IF should_panic THEN NotPanicked
        ELSE IF should_fail THEN (IF succeeded THEN NotFailed ELSE Passed)
        ELSE (IF succeeded THEN Passed ELSE Failed)

\* Calling test.function once, catch_unwind returning `result`.
Call(f, result) == Status(Raw(result), Decl(f).should_panic, Decl(f).should_fail)

----------------------------------------------------------------------------
(* Configurations *)

DefaultConfig ==
    [name_filter |-> None, tags |-> <<>>, exclude_tags |-> <<>>, fail_fast |-> FALSE]

\* The configurations cargo-testify hands to the explored runs.
RunConfigs ==
    [name_filter : {None, Some(<<"x", "*">>), Some(<<"[">>)},
     tags : {<<>>},
     exclude_tags : {<<>>, <<"a">>},
     fail_fast : BOOLEAN]

----------------------------------------------------------------------------
(* The process: constructors, main, run *)

Init ==
    /\ TESTS = <<>>
    /\ SETUP = None
    /\ CLEANUP = None
    /\ pc = "ctor"
    /\ toggle = FALSE
    /\ cfgvar = "absent"
    /\ config = DefaultConfig
    /\ groups = <<>>
    /\ pos = <<1, 1, 1>>
    /\ failures = 0
    /\ successes = 0
    /\ log = <<>>
    /\ stdout = <<>>
    /\ atStart = [setup |-> None, cleanup |-> None, tests |-> <<>>]
    /\ hookCtors = [setup |-> <<>>, cleanup |-> <<>>]
    /\ calls = 0
    /\ held = {}
    /\ exitCode = None

Registered(f) == \E i \in 1..Len(TESTS) : TESTS[i].function = f

runLocals == <<groups, pos, failures, successes, stdout>>

environment == <<toggle, cfgvar, config, atStart, hookCtors, calls, held>>

\* __testify_register_<fn>, run once per test function before main.
RegisterTest(f) ==
    /\ pc = "ctor"
    /\ ~Registered(f)
    /\ Len(TESTS) < MaxTests
    /\ TESTS' = Append(TESTS, Descriptor(f))
    /\ UNCHANGED <<SETUP, CLEANUP, pc, environment, runLocals, log, exitCode>>

\* The constructor of hook h has not run yet.
NotRun(ctors, h) == \A i \in 1..Len(ctors) : ctors[i] # h

launch == <<toggle, cfgvar, config, atStart, calls>>

\* __testify_register_setup keeping the hook the slot already holds.
RegisterSetupFirstWins(h) ==
    /\ pc = "ctor"
    /\ NotRun(hookCtors.setup, h)
    /\ SETUP' = IF SETUP = None THEN Some(h) ELSE SETUP
    /\ hookCtors' = [hookCtors EXCEPT !.setup = Append(@, h)]
    /\ UNCHANGED <<TESTS, CLEANUP, pc, launch, held, runLocals, log, exitCode>>

\* __testify_register_setup of the setup hook h, run once before main.
RegisterSetup(h) ==
    /\ pc = "ctor"
    /\ NotRun(hookCtors.setup, h)
    /\ SETUP' = Some(h)
    /\ hookCtors' = [hookCtors EXCEPT !.setup = Append(@, h)]
    /\ UNCHANGED <<TESTS, CLEANUP, pc, launch, held, runLocals, log, exitCode>>

\* __testify_register_cleanup of the cleanup hook h, run once before main.
RegisterCleanup(h) ==
    /\ pc = "ctor"
    /\ NotRun(hookCtors.cleanup, h)
    /\ CLEANUP' = Some(h)
    /\ hookCtors' = [hookCtors EXCEPT !.cleanup = Append(@, h)]
    /\ UNCHANGED <<TESTS, SETUP, pc, launch, held, runLocals, log, exitCode>>

\* The process started by cargo-testify (toggle and configuration set) or
\* directly (neither set), and the main generated by #[testify::main]
\* calling testify::run() when `is_ok` holds, the user's block otherwise.
MainStep(is_set, is_ok) ==
    /\ pc = "ctor"
    /\ toggle' = is_set
    /\ IF is_set
        THEN \/ cfgvar' \in {"absent", "garbage"} /\ config' = DefaultConfig
             \/ cfgvar' = "valid" /\ config' \in RunConfigs
        ELSE cfgvar' = "absent" /\ config' = DefaultConfig
    /\ pc' = IF is_ok THEN "setup" ELSE "main_body"
    /\ calls' = IF is_ok THEN 1 ELSE 0
    /\ atStart' = [setup |-> SETUP, cleanup |-> CLEANUP, tests |-> TESTS]
    /\ UNCHANGED <<TESTS, SETUP, CLEANUP, hookCtors, held, runLocals, log, exitCode>>

\* Main calling testify::run() whether the toggle variable is set or not.
MainAlwaysRuns == \E is_set \in BOOLEAN : MainStep(is_set, TRUE)

\* The main generated by #[testify::main]: var(TOGGLE).is_ok() holds iff
\* the toggle variable is set.
Main == \E is_set \in BOOLEAN : MainStep(is_set, is_set)

\* The user's original main body.
MainBody ==
    /\ pc = "main_body"
    /\ pc' = "returned"
    /\ exitCode' = Some(0)
    /\ UNCHANGED <<TESTS, SETUP, CLEANUP, environment, runLocals, log>>

\* The three registries, each behind its own std::sync::Mutex.
LockNames == {"TESTS", "SETUP", "CLEANUP"}

\* User code called from run calls lock() on the registry attempt[1] while
\* the thread holds `guards`: the mutex is not reentrant.
Relocks(attempt, guards) == attempt # None /\ attempt[1] \in guards

\* How a hook ends: a lock() on a mutex its own thread holds never returns
\* (std leaves open whether it blocks for ever or panics); otherwise the
\* hook returns or panics as it likes.
HookEnds(attempt, guards) ==
    IF Relocks(attempt, guards) THEN {"blocked", "panic"} ELSE HookOutcomes

\* history: what the call of lock() by the user code `by` came to.
LockEvents(by, attempt, guards, outcome) ==
    IF attempt = None THEN <<>>
    ELSE << [kind |-> "lock", id |-> attempt[1],
             raw |-> IF attempt[1] \in guards THEN outcome ELSE "acquired",
             status |-> by, value |-> None] >>

HookEvent(kind, h, outcome) ==
    [kind |-> kind, id |-> h, raw |-> outcome, status |-> "-", value |-> None]

\* The setup step, the slot being emptied by the call when `taken` holds
\* and the hook calling lock() on the registry `attempt`, if any. The guard
\* of SETUP is a temporary of the if-let and lives while the hook runs.
SetupStep(taken, attempt) ==
    /\ pc = "setup"
    /\ IF SETUP # None THEN
            \E outcome \in HookEnds(attempt, held \cup {"SETUP"}) :
                /\ SETUP' = IF taken THEN None ELSE SETUP
                /\ log' = log \o LockEvents("setup", attempt, held \cup {"SETUP"}, outcome)
                              \o <<HookEvent("setup", SETUP[1], outcome)>>
                /\ IF outcome = "panic"
                    THEN pc' = "panicked" /\ exitCode' = Some(101) /\ held' = {}
                    ELSE IF outcome = "blocked"
                    THEN pc' = "blocked" /\ exitCode' = exitCode
                         /\ held' = held \cup {"SETUP"}
                    ELSE pc' = "config" /\ exitCode' = exitCode /\ held' = held
       ELSE /\ attempt = None
            /\ pc' = "config"
            /\ UNCHANGED <<SETUP, log, exitCode, held>>
    /\ UNCHANGED <<TESTS, CLEANUP, launch, hookCtors, runLocals>>

\* RunSetup reading the hook out of the slot and leaving it there.
RunSetupKeeping == SetupStep(FALSE, None)

\* run: the setup step, SETUP.lock().unwrap().take().
RunSetup == SetupStep(TRUE, None)

\* Reading the configuration variable, then process::exit(1) when the glob
\* is `malformed`.
LoadStep(malformed) ==
    /\ pc = "config"
    /\ IF cfgvar # "valid"
        THEN pc' = "panicked" /\ exitCode' = Some(101)
        ELSE IF malformed
            THEN pc' = "exited" /\ exitCode' = Some(1)
            ELSE pc' = "organize" /\ exitCode' = exitCode
    /\ UNCHANGED <<TESTS, SETUP, CLEANUP, environment, runLocals, log>>

\* LoadConfig going on with a pattern that did not compile.
LoadConfigAnyGlob == LoadStep(FALSE)

\* run: reading the configuration variable and compiling the glob.
LoadConfig == LoadStep(~PatternOk(PatternText(config), TRUE))

\* Where the loops stand once `gs` is iterated from its first case.
LoopPc(gs, at) == IF at[1] > Len(gs) THEN "cleanup" ELSE "running"

RECURSIVE CountCases(_)
CountCases(plans) ==
    IF plans = <<>> THEN 0 ELSE Len(Head(plans).cases) + CountCases(Tail(plans))

\* tests_to_run counting the plans in place of their cases.
RECURSIVE CountPlans(_)
CountPlans(gs) ==
    IF gs = <<>> THEN 0 ELSE Len(Head(gs).test_plans) + CountPlans(Tail(gs))

\* The two nested folds that add up cases.len() over every plan of every group.
RECURSIVE tests_to_run(_)
tests_to_run(gs) ==
    IF gs = <<>> THEN 0 ELSE CountCases(Head(gs).test_plans) + tests_to_run(Tail(gs))

\* all - n on usize; None stands for the underflow of n > all (a panic in a
\* debug build, a wrapped value in a release build).
Skipped(all, n) == IF n <= all THEN Some(all - n) ELSE None

\* The line "Running {} tests ({} skipped)...".
Running(all, n) == [line |-> "running", tests |-> n, skipped |-> Skipped(all, n)]

\* Locking TESTS, organize on a clone of it and the counters' initialisation,
\* the registry being left as `left` and the locks in `guard` being kept in
\* a local of run.
OrganizeStep(left, guard) ==
    /\ pc = "organize"
    /\ LET organized == organize(TESTS, config) IN
        IF organized.panicked
            THEN /\ pc' = "panicked"
                 /\ exitCode' = Some(101)
                 /\ held' = {}
                 /\ UNCHANGED runLocals
            ELSE /\ groups' = organized.result
                 /\ failures' = 0
                 /\ successes' = 0
                 /\ pos' = <<1, 1, 1>>
                 /\ stdout' = Append(stdout, Running(Len(TESTS), tests_to_run(organized.result)))
                 /\ pc' = LoopPc(organized.result, <<1, 1, 1>>)
                 /\ held' = held \cup guard
                 /\ exitCode' = exitCode
    /\ TESTS' = left
    /\ UNCHANGED <<SETUP, CLEANUP, launch, hookCtors, log>>

\* Organize moving the descriptors out of TESTS in place of cloning them.
OrganizeDraining == OrganizeStep(<<>>, {"TESTS"})

\* Organize locking TESTS only for the clone: the guard is a temporary.
OrganizeUnlocked == OrganizeStep(TESTS, {})

\* run: `let all_tests = TESTS.lock().unwrap()`, organize on a clone, and
\* the counters' initialisation; all_tests lives to the end of run.
Organize == OrganizeStep(TESTS, {"TESTS"})

CurPlan == groups[pos[1]].test_plans[pos[2]]

CurCase == CurPlan.cases[pos[3]]

\* Advance leaving a plan after its first iteration: the inner loop over
\* the cases never takes a second turn.
AdvancePlanwise(gs, at) ==
    IF at[2] < Len(gs[at[1]].test_plans) THEN <<at[1], at[2] + 1, 1>>
    ELSE <<at[1] + 1, 1, 1>>

\* The position of the next iteration of the nested for loops.
Advance(gs, at) ==
    LET plans == gs[at[1]].test_plans IN
    IF at[3] < Len(plans[at[2]].cases) THEN <<at[1], at[2], at[3] + 1>>
    ELSE IF at[2] < Len(plans) THEN <<at[1], at[2] + 1, 1>>
    ELSE <<at[1] + 1, 1, 1>>

\* The arm `_ =>` of the match on the result, against TestStatus::Passed.
IsFailure(status) == status # Passed

\* Aborts with the fail_fast test lost: the loops never break.
AbortsNever(status, fail_fast) == FALSE

\* Aborts breaking the loops on every panic, whatever fail_fast says.
AbortsOnPanic(status, fail_fast) ==
    IsFailure(status) /\ (fail_fast \/ status = Panicked)

\* Aborts breaking the loops only when a test expected to pass did not.
AbortsUnlessExpected(status, fail_fast) ==
    fail_fast /\ status \in {Failed, Panicked}

\* break 'groups_loop
Aborts(status, fail_fast) == IsFailure(status) /\ fail_fast

\* CountSuccess taking a should_fail test that did not fail for a success.
CountSuccessNotFailed(status, n) ==
    IF status \in {Passed, NotFailed} THEN n + 1 ELSE n

\* successes += 1 in the arm TestStatus::Passed
CountSuccess(status, n) == IF status = Passed THEN n + 1 ELSE n

\* CountFailure counting only the statuses Failed and Panicked.
CountFailureUnexpectedOnly(status, n) ==
    IF status \in {Failed, Panicked} THEN n + 1 ELSE n

\* failures += 1 in the arm `_`
CountFailure(status, n) == IF IsFailure(status) THEN n + 1 ELSE n

TestEvent(f, result, status) ==
    [kind |-> "test", id |-> f, raw |-> Raw(result), status |-> status,
     value |-> result]

\* The line printed ahead of the call: the plan's name or the case's label.
Started(f) == [line |-> "start", id |-> f]

\* What the arm of the match prints: "Ok." with the formatted duration, or
\* "Failed!", followed by "Aborted." under fail_fast.
Reported(f, status, fail_fast) ==
    IF status = Passed
    THEN [line |-> "outcome", id |-> f, text |-> "Ok.", duration |-> TRUE,
          aborted |-> FALSE]
    ELSE [line |-> "outcome", id |-> f, text |-> "Failed!", duration |-> FALSE,
          aborted |-> fail_fast]

\* How the call of a test function ends: "blocked" in a lock() that never
\* returns, or "caught" with what catch_unwind returned, the panic of a
\* lock() on a held mutex included.
CallEnds(f, attempt, guards) ==
    IF Relocks(attempt, guards)
    THEN {<<"blocked", None>>, <<"caught", None>>}
    ELSE {<<"caught", result>> : result \in RawOutcomes(f)}

\* exec_with_timing(case.function) and the match on its result, the body
\* calling lock() on the registry `attempt`, if any.
ExecStep(test, attempt) ==
    \E end \in CallEnds(test.function, attempt, held) :
        LET result == end[2]
            status == Call(test.function, result)
            locks == LockEvents("test", attempt, held, IF end[1] = "blocked" THEN "blocked" ELSE "panic")
        IN
        IF end[1] = "blocked"
        THEN /\ pc' = "blocked"
             /\ log' = log \o locks
             /\ stdout' = Append(stdout, Started(test.function))
             /\ UNCHANGED <<TESTS, SETUP, CLEANUP, environment, groups, pos,
                            failures, successes, exitCode>>
        ELSE /\ log' = Append(log \o locks, TestEvent(test.function, result, status))
             /\ stdout' = stdout \o <<Started(test.function),
                                       Reported(test.function, status, config.fail_fast)>>
             /\ successes' = CountSuccess(status, successes)
             /\ failures' = CountFailure(status, failures)
             /\ IF Aborts(status, config.fail_fast)
                 THEN pc' = "cleanup" /\ pos' = pos
                 ELSE /\ pos' = Advance(groups, pos)
                      /\ pc' = LoopPc(groups, Advance(groups, pos))
             /\ UNCHANGED <<TESTS, SETUP, CLEANUP, environment, groups, exitCode>>

\* One iteration whose test function leaves the registries alone.
Exec(test) == ExecStep(test, None)

\* run: a plan with exactly one case.
ExecSingle ==
    /\ pc = "running"
    /\ Len(CurPlan.cases) = 1
    /\ Exec(CurPlan.cases[1])

\* run: one case of a plan with several cases.
ExecCase ==
    /\ pc = "running"
    /\ Len(CurPlan.cases) # 1
    /\ Exec(CurCase)

\* The cleanup step, the hook being invoked when `invoke` holds and calling
\* lock() on the registry `attempt`, if any. The guard of CLEANUP is a
\* temporary of the if-let and lives while the hook runs.
CleanupStep(invoke, attempt) ==
    /\ pc = "cleanup"
    /\ IF invoke THEN
            \E outcome \in HookEnds(attempt, held \cup {"CLEANUP"}) :
                /\ CLEANUP' = None
                /\ log' = log \o LockEvents("cleanup", attempt, held \cup {"CLEANUP"}, outcome)
                              \o <<HookEvent("cleanup", CLEANUP[1], outcome)>>
                /\ IF outcome = "panic"
                    THEN pc' = "panicked" /\ exitCode' = Some(101) /\ held' = {}
                    ELSE IF outcome = "blocked"
                    THEN pc' = "blocked" /\ exitCode' = exitCode
                         /\ held' = held \cup {"CLEANUP"}
                    ELSE pc' = "summary" /\ exitCode' = exitCode /\ held' = held
       ELSE /\ attempt = None
            /\ pc' = "summary"
            /\ UNCHANGED <<CLEANUP, log, exitCode, held>>
    /\ UNCHANGED <<TESTS, SETUP, launch, hookCtors, runLocals>>

\* RunCleanup leaving the hook out after a fail-fast abort.
RunCleanupUnlessAborted ==
    CleanupStep(CLEANUP # None /\ ~(config.fail_fast /\ failures > 0), None)

\* run: the cleanup step.
RunCleanup == CleanupStep(CLEANUP # None, None)

\* The summary line, then process::exit(1) when `failed` holds.
FinishStep(failed) ==
    /\ pc = "summary"
    /\ IF failed
        THEN pc' = "exited" /\ exitCode' = Some(1) /\ held' = held
        ELSE pc' = "returned" /\ exitCode' = Some(0) /\ held' = {}
    /\ UNCHANGED <<TESTS, SETUP, CLEANUP, launch, hookCtors, runLocals, log>>

\* Finish exiting with 1 only when more cases failed than passed.
FinishMajority == FinishStep(failures > successes)

\* run: the summary line and the exit status.
Finish == FinishStep(failures > 0)

Next ==
    \/ \E f \in RunFns : RegisterTest(f)
    \/ \E h \in SetupFns : RegisterSetup(h)
    \/ \E h \in CleanupFns : RegisterCleanup(h)
    \/ Main
    \/ MainBody
    \/ RunSetup
    \/ LoadConfig
    \/ Organize
    \/ ExecSingle
    \/ ExecCase
    \/ RunCleanup
    \/ Finish

Spec == Init /\ [][Next]_vars

----------------------------------------------------------------------------
(* A process that calls run more than once *)

\* How many times the process calls run.
MaxCalls == 2

\* How many tests the programs explored from their first call of run register.
MaxRunTests == 2

\* The registries the constructors can build from at most n of RunFns.
RunRegistries(n) ==
    LET seqs == UNION {[1..k -> RunFns] : k \in 0..n} IN
    {[i \in 1..Len(q) |-> Descriptor(q[i])] :
        q \in {r \in seqs : \A i, j \in 1..Len(r) : r[i] = r[j] => i = j}}

\* What one registration leaves in hookCtors.
CtorsOf(slot) == IF slot = None THEN <<>> ELSE <<slot[1]>>

\* The constructors have run and the process makes its first call of run.
InitRun ==
    /\ TESTS \in RunRegistries(MaxRunTests)
    /\ SETUP \in {None, Some("s1")}
    /\ CLEANUP \in {None, Some("c1")}
    /\ pc = "setup"
    /\ toggle = TRUE
    /\ cfgvar = "valid"
    /\ config \in RunConfigs
    /\ groups = <<>>
    /\ pos = <<1, 1, 1>>
    /\ failures = 0
    /\ successes = 0
    /\ log = <<>>
    /\ stdout = <<>>
    /\ atStart = [setup |-> SETUP, cleanup |-> CLEANUP, tests |-> TESTS]
    /\ hookCtors = [setup |-> CtorsOf(SETUP), cleanup |-> CtorsOf(CLEANUP)]
    /\ calls = 1
    /\ held = {}
    /\ exitCode = None

\* run has returned to a caller that calls it once more, with no
\* registration in between.
RunAgain ==
    /\ pc = "returned"
    /\ calls >= 1
    /\ calls < MaxCalls
    /\ calls' = calls + 1
    /\ pc' = "setup"
    /\ exitCode' = None
    /\ UNCHANGED <<TESTS, SETUP, CLEANUP, toggle, cfgvar, config, atStart,
                   hookCtors, held, runLocals, log>>

NextTwice ==
    \/ RunSetup
    \/ LoadConfig
    \/ Organize
    \/ ExecSingle
    \/ ExecCase
    \/ RunCleanup
    \/ Finish
    \/ RunAgain

SpecTwice == InitRun /\ [][NextTwice]_vars

----------------------------------------------------------------------------
(* User code that locks the registries *)

\* How many calls of lock() by user code one process makes.
MaxAttempts == 1

IsLock(e) == e.kind = "lock"

\* The user code of the program has another call of lock() to make.
MayAttempt == Len(SelectSeq(log, IsLock)) < MaxAttempts

\* Runs without a filter, with and without fail_fast.
LockConfigs ==
    [name_filter : {None}, tags : {<<>>}, exclude_tags : {<<>>},
     fail_fast : BOOLEAN]

InitLock == InitRun /\ config \in LockConfigs

\* A setup hook that calls lock() on a registry.
SetupLocks ==
    /\ MayAttempt
    /\ \E m \in LockNames : SetupStep(TRUE, Some(m))

\* A test function that calls lock() on a registry.
ExecLocks ==
    /\ pc = "running"
    /\ MayAttempt
    /\ \E m \in LockNames : ExecStep(CurCase, Some(m))

\* A cleanup hook that calls lock() on a registry.
CleanupLocks ==
    /\ CLEANUP # None
    /\ MayAttempt
    /\ \E m \in LockNames : CleanupStep(TRUE, Some(m))

\* A thread started by user code registers the test f while run is under
\* way: it pushes once TESTS.lock() has returned, which needs the mutex free.
LateRegister(f) ==
    /\ pc \in {"setup", "config", "organize", "running", "cleanup", "summary",
               "blocked"}
    /\ "TESTS" \notin held
    /\ ~Registered(f)
    /\ Len(TESTS) < MaxRunTests
    /\ TESTS' = Append(TESTS, Descriptor(f))
    /\ UNCHANGED <<SETUP, CLEANUP, pc, environment, runLocals, log, exitCode>>

\* The steps of run itself.
RunSteps ==
    \/ RunSetup
    \/ SetupLocks
    \/ LoadConfig
    \/ Organize
    \/ ExecSingle
    \/ ExecCase
    \/ ExecLocks
    \/ RunCleanup
    \/ CleanupLocks
    \/ Finish

NextLock ==
    \/ RunSteps
    \/ \E f \in RunFns : LateRegister(f)

SpecLock == InitLock /\ [][NextLock]_vars

----------------------------------------------------------------------------
(* organize applied to every small registry and filter *)

\* The registries the constructors can build from at most n test functions:
\* every order of every choice of distinct functions.
Registries(n) ==
    LET seqs == UNION {[1..k -> TestFns] : k \in 0..n} IN
    {[i \in 1..Len(q) |-> Descriptor(q[i])] :
        q \in {r \in seqs : \A i, j \in 1..Len(r) : r[i] = r[j] => i = j}}

\* Every order of the elements of seq.
Perms(seq) ==
    LET n == Len(seq) IN
    {[i \in 1..n |-> seq[b[i]]] :
        b \in {f \in [1..n -> 1..n] : \A i, j \in 1..n : f[i] = f[j] => i = j}}

\* The four tests of the grouping example, registered in any order.
ExampleRegistries ==
    Perms(<<Descriptor("f1"), Descriptor("f2"), Descriptor("f3"), Descriptor("f4")>>)

\* Filters with a well-formed glob, the only ones organize is reached with.
OrgConfigs ==
    [name_filter : {None, Some(<<"x">>), Some(<<"x", "*">>), Some(<<"?">>)},
     tags : {<<>>, <<"b">>, <<"b", "a">>},
     exclude_tags : {<<>>, <<"a">>},
     fail_fast : {FALSE}]

\* run has read its configuration and is about to call organize.
InitOrg ==
    /\ TESTS \in Registries(MaxOrgTests) \cup ExampleRegistries
    /\ SETUP = None
    /\ CLEANUP = None
    /\ pc = "organize"
    /\ toggle = TRUE
    /\ cfgvar = "valid"
    /\ config \in OrgConfigs
    /\ groups = <<>>
    /\ pos = <<1, 1, 1>>
    /\ failures = 0
    /\ successes = 0
    /\ log = <<>>
    /\ stdout = <<>>
    /\ atStart = [setup |-> None, cleanup |-> None, tests |-> TESTS]
    /\ hookCtors = [setup |-> <<>>, cleanup |-> <<>>]
    /\ calls = 1
    /\ held = {}
    /\ exitCode = None

NextOrg == Organize

SpecOrg == InitOrg /\ [][NextOrg]_vars

----------------------------------------------------------------------------
(* Vocabulary of the properties *)

Range(seq) == {seq[i] : i \in 1..Len(seq)}

Last(seq) == seq[Len(seq)]

RECURSIVE FlatPlans(_)
FlatPlans(plans) ==
    IF plans = <<>> THEN <<>> ELSE Head(plans).cases \o FlatPlans(Tail(plans))

\* The cases of a sequence of groups in execution order.
RECURSIVE Flat(_)
Flat(gs) ==
    IF gs = <<>> THEN <<>> ELSE FlatPlans(Head(gs).test_plans) \o Flat(Tail(gs))

IsTest(e) == e.kind = "test"

\* The executions so far, in order.
Executed == SelectSeq(log, IsTest)

ExecutedFns == [i \in 1..Len(Executed) |-> Executed[i].id]

PlannedFns == [i \in 1..Len(Flat(groups)) |-> Flat(groups)[i].function]

\* run was entered and got past organize, and its loops have ended.
LoopEnded ==
    \/ pc \in {"cleanup", "summary"}
    \/ pc = "returned" /\ toggle
    \/ pc = "exited" /\ cfgvar = "valid" /\ PatternOk(PatternText(config), TRUE)
    \/ pc = "panicked" /\ log # <<>> /\ Last(log).kind = "cleanup"

\* run printed its summary and ended.
SummaryDone ==
    \/ pc = "returned" /\ toggle
    \/ pc = "exited" /\ cfgvar = "valid" /\ PatternOk(PatternText(config), TRUE)

\* The process has ended.
Ended == pc \in {"returned", "exited", "panicked"}

----------------------------------------------------------------------------
(* C1 *)

\* C1: with fail_fast, no case is executed after the first case whose status
\* is not Passed, and the run is then at or past its cleanup step; without
\* fail_fast, once the loops have ended every case of the plan organize
\* produced has been executed, in order.
C1_FailFast ==
    /\ config.fail_fast =>
        /\ \A i \in 1..Len(Executed) :
            Executed[i].status # Passed => i = Len(Executed)
        /\ (Executed # <<>> /\ Last(Executed).status # Passed) => LoopEnded
    /\ (~config.fail_fast /\ LoopEnded) =>
        /\ groups = organize(TESTS, config).result
        /\ ExecutedFns = PlannedFns

\* Three planned cases, the second fails under fail_fast: two executions.
C1_Witness ==
    /\ config.fail_fast
    /\ pc = "summary"
    /\ Len(PlannedFns) = 3
    /\ Len(Executed) = 2
    /\ Executed[1].status = Passed
    /\ Executed[2].status # Passed

----------------------------------------------------------------------------
(* C2 *)

TagSet(tags) == {tags[i] : i \in 1..Len(tags)}

\* C2: once organize has returned, a registered test is among the cases of
\* its output if and only if it has every tag of config.tags, none of
\* config.exclude_tags, and a name the name-filter glob matches, an absent
\* name filter matching every name.
C2_FilterCorrect ==
    pc # "organize" =>
        \A i \in 1..Len(TESTS) :
            TESTS[i] \in Range(Flat(groups)) <=>
                /\ TagSet(config.tags) \subseteq TagSet(TESTS[i].tags)
                /\ TagSet(config.exclude_tags) \cap TagSet(TESTS[i].tags) = {}
                /\ \/ config.name_filter = None
                   \/ Matches(config.name_filter[1], TESTS[i].name)

\* A tag filter, an exclusion and a glob are all set; one test passes all
\* three, one fails only the exclusion, one has no excluded tag and fails
\* the glob.
C2_Witness ==
    /\ pc # "organize"
    /\ config.tags # <<>>
    /\ config.exclude_tags # <<>>
    /\ config.name_filter # None
    /\ Flat(groups) # <<>>
    /\ \E i \in 1..Len(TESTS) :
        /\ TESTS[i] \notin Range(Flat(groups))
        /\ TagSet(config.tags) \subseteq TagSet(TESTS[i].tags)
        /\ Matches(config.name_filter[1], TESTS[i].name)
    /\ \E i \in 1..Len(TESTS) :
        /\ TESTS[i] \notin Range(Flat(groups))
        /\ TagSet(config.exclude_tags) \cap TagSet(TESTS[i].tags) = {}
        /\ ~Matches(config.name_filter[1], TESTS[i].name)

----------------------------------------------------------------------------
(* C3 *)

\* The table of the specification: outcome of the body, should_panic,
\* should_fail, status.  "Normal, any" is written as its two rows, and an
\* abnormal termination under should_fail is Panicked like any other
\* unexpected one.
StatusTable ==
    { <<"panic",   FALSE, FALSE, Panicked>>,
      <<"panic",   TRUE,  FALSE, Passed>>,
      <<"panic",   FALSE, TRUE,  Panicked>>,
      <<"success", FALSE, FALSE, Passed>>,
      <<"success", FALSE, TRUE,  NotFailed>>,
      <<"failure", FALSE, FALSE, Failed>>,
      <<"failure", FALSE, TRUE,  Passed>>,
      <<"success", TRUE,  FALSE, NotPanicked>>,
      <<"failure", TRUE,  FALSE, NotPanicked>> }

Row(e) == <<e.raw, Decl(e.id).should_panic, Decl(e.id).should_fail, e.status>>

----------------------------------------------------------------------------
(* C4 *)

IsSetup(e) == e.kind = "setup"

IsCleanup(e) == e.kind = "cleanup"

\* C4: every execution of a case comes after the invocation of the setup
\* hook that was registered and before any invocation of the cleanup hook;
\* and once the loops have ended and the cleanup step is passed (all cases
\* run, fail-fast abort or no case at all) the cleanup hook that was
\* registered has been invoked.
C4_HookOrdering ==
    /\ \A i \in 1..Len(log) : IsTest(log[i]) =>
        /\ atStart.setup # None =>
            \E j \in 1..(i - 1) : IsSetup(log[j]) /\ log[j].id = atStart.setup[1]
        /\ \A j \in 1..Len(log) : IsSetup(log[j]) => j < i
        /\ \A j \in 1..Len(log) : IsCleanup(log[j]) => i < j
    /\ (LoopEnded /\ pc # "cleanup" /\ atStart.cleanup # None) =>
        \E j \in 1..Len(log) : IsCleanup(log[j]) /\ log[j].id = atStart.cleanup[1]

\* A run that fail-fast aborted before its last case, with both hooks
\* invoked around the executions.
C4_Witness ==
    /\ pc = "summary"
    /\ config.fail_fast
    /\ Len(Executed) < Len(PlannedFns)
    /\ Len(log) = Len(Executed) + 2
    /\ IsSetup(log[1])
    /\ IsCleanup(Last(log))

----------------------------------------------------------------------------
(* C5 *)

\* C5: when run has printed its summary and ended, the exit status is
\* non-zero exactly if failures > 0; if no case was planned, both counters
\* are 0 and the exit status is 0.
C5_ExitStatus ==
    SummaryDone =>
        /\ exitCode # None
        /\ exitCode[1] # 0 <=> failures > 0
        /\ PlannedFns = <<>> => failures = 0 /\ successes = 0 /\ exitCode = Some(0)

\* Tests are registered, the filter leaves none, and the run ended.
C5_Witness ==
    /\ SummaryDone
    /\ TESTS # <<>>
    /\ PlannedFns = <<>>
    /\ exitCode = Some(0)

----------------------------------------------------------------------------
(* C6 *)

\* C6: in every state successes + failures is the number of cases executed
\* so far.
C6_Aggregate == successes + failures = Len(Executed)

\* A fail-fast run that stopped early: fewer executions than planned cases.
C6_Witness ==
    /\ pc = "summary"
    /\ successes >= 1
    /\ failures = 1
    /\ Len(Executed) < Len(PlannedFns)

----------------------------------------------------------------------------
(* C7 *)

\* C7: a panic of a test that is not should_panic is recorded as Panicked;
\* and in a run without fail_fast in which a case panicked, the loops go on
\* (the run is never stopped by the panic), every planned case has been
\* executed once they end, and the run can always take its next step up to
\* and including the summary.
C7_Isolation ==
    /\ \A i \in 1..Len(Executed) :
        (Executed[i].raw = "panic" /\ ~Decl(Executed[i].id).should_panic)
            => Executed[i].status = Panicked
    /\ (~config.fail_fast /\ \E i \in 1..Len(Executed) : Executed[i].status = Panicked) =>
        /\ pc = "running" \/ LoopEnded
        /\ LoopEnded => ExecutedFns = PlannedFns
        /\ pc \in {"running", "cleanup", "summary"} => ENABLED Next

\* The first of three cases panicked, the other two ran, the cleanup hook
\* was invoked and the summary printed.
C7_Witness ==
    /\ ~config.fail_fast
    /\ SummaryDone
    /\ Len(Executed) = 3
    /\ Executed[1].status = Panicked
    /\ IsCleanup(Last(log))

----------------------------------------------------------------------------
(* C8 *)

SetupPanicked == \E j \in 1..Len(log) : IsSetup(log[j]) /\ log[j].raw = "panic"

\* C8: if the setup hook panics, no case is executed and, when the process
\* has ended, the registered cleanup hook has been invoked and the exit
\* status is not 0.
C8_SetupFailure ==
    SetupPanicked =>
        /\ Executed = <<>>
        /\ Ended =>
            /\ exitCode # None /\ exitCode[1] # 0
            /\ atStart.cleanup # None =>
                \E j \in 1..Len(log) : IsCleanup(log[j]) /\ log[j].id = atStart.cleanup[1]

----------------------------------------------------------------------------
(* C9 *)

MalformedGlob ==
    toggle /\ cfgvar = "valid" /\ ~PatternOk(PatternText(config), TRUE)

\* C9: with a malformed name filter no case is ever executed, run never
\* gets to organize, and when the process has ended its exit status is not 0.
C9_ConfigError ==
    MalformedGlob =>
        /\ Executed = <<>>
        /\ pc \notin {"organize", "running", "cleanup", "summary"}
        /\ Ended => exitCode # None /\ exitCode[1] # 0

\* Tests are registered, the setup hook returned, and run exited on the
\* malformed pattern.
C9_Witness ==
    /\ MalformedGlob
    /\ TESTS # <<>>
    /\ log # <<>>
    /\ pc = "exited"
    /\ exitCode = Some(1)

----------------------------------------------------------------------------
(* C10 *)

\* A descriptor without its function.
Key(test) == [tags |-> test.tags, name |-> test.name, case |-> test.case]

\* Groups, plans and cases with every case reduced to its key.
Shape(gs) ==
    [g \in 1..Len(gs) |->
        [tags |-> gs[g].tags,
         test_plans |-> [p \in 1..Len(gs[g].test_plans) |->
            [name |-> gs[g].test_plans[p].name,
             cases |-> [c \in 1..Len(gs[g].test_plans[p].cases) |->
                Key(gs[g].test_plans[p].cases[c])]]]]]

\* Position of the descriptor of function f in the registry seq.
IndexOf(seq, f) == CHOOSE i \in 1..Len(seq) : seq[i].function = f

\* C10 as stated: organize gives the same groups, plans and cases, with the
\* same function at each position, for every order of the registry.
C10_OrderIrrelevant ==
    pc # "organize" =>
        \A p \in Perms(TESTS) : organize(p, config).result = groups

\* C10 amended: for every order of the registry organize gives the same
\* groups, plans and case keys (tags, name, case) at every position; the
\* functions are the same too unless two retained descriptors have equal
\* keys, and descriptors of equal key come out in their registration order.
C10_OrderUpToEqualKeys ==
    pc # "organize" =>
        \A p \in Perms(TESTS) :
            LET out == organize(p, config).result
                flat == Flat(out)
            IN  /\ Shape(out) = Shape(groups)
                /\ (\A i, j \in 1..Len(flat) : Key(flat[i]) = Key(flat[j]) => i = j)
                    => out = groups
                /\ \A i, j \in 1..Len(flat) :
                    (i < j /\ Key(flat[i]) = Key(flat[j]))
                        => IndexOf(p, flat[i].function) < IndexOf(p, flat[j].function)

\* Two retained descriptors with equal keys and a third, different one, in
\* two groups.
C10_Witness ==
    /\ pc # "organize"
    /\ Len(groups) = 2
    /\ \E i, j \in 1..Len(Flat(groups)) :
        i # j /\ Key(Flat(groups)[i]) = Key(Flat(groups)[j])

----------------------------------------------------------------------------
(* C11 *)

\* The registry holds exactly the four tests of the grouping example, no
\* filter is configured and organize has returned.
GroupingExample ==
    /\ Len(TESTS) = 4
    /\ Range(TESTS) = {Descriptor("f1"), Descriptor("f2"), Descriptor("f3"),
                       Descriptor("f4")}
    /\ config.name_filter = None
    /\ config.tags = <<>>
    /\ config.exclude_tags = <<>>
    /\ pc # "organize"

\* The group with the given tags has exactly one plan, of the given name,
\* with n cases in non-decreasing order of their case labels.
OnePlanGroup(g, tags, name, n) ==
    /\ g.tags = tags
    /\ Len(g.test_plans) = 1
    /\ g.test_plans[1].name = name
    /\ Len(g.test_plans[1].cases) = n
    /\ \A i, j \in 1..Len(g.test_plans[1].cases) :
        i < j => CmpSeq(g.test_plans[1].cases[i].case,
                        g.test_plans[1].cases[j].case) # Greater

\* C11 as stated: the four descriptors of the example are organized into
\* exactly 2 groups, the [a,b] group with exactly one plan x of 2 cases
\* ordered by case label, the [] group with exactly one plan y of 1 case.
C11_ExampleTwoCases ==
    GroupingExample =>
        /\ Len(groups) = 2
        /\ \E i \in 1..Len(groups) : OnePlanGroup(groups[i], <<"a", "b">>, <<"x">>, 2)
        /\ \E i \in 1..Len(groups) : OnePlanGroup(groups[i], <<>>, <<"y">>, 1)

\* C11: the four descriptors of the example, in whatever order they were
\* registered, are organized into exactly 2 groups: first the [] group with
\* exactly one plan y of 1 case, then the [a,b] group with exactly one plan x
\* of 3 cases, the test without a case label first, then case 1, then case 2.
C11_ExampleThreeCases ==
    GroupingExample =>
        groups = << [tags |-> <<>>,
                     test_plans |-> << [name |-> <<"y">>,
                                        cases |-> <<Descriptor("f4")>>] >>],
                    [tags |-> <<"a", "b">>,
                     test_plans |-> << [name |-> <<"x">>,
                                        cases |-> <<Descriptor("f1"), Descriptor("f2"),
                                                    Descriptor("f3")>>] >>] >>

\* organize has returned for the example registered with the labelled cases
\* ahead of the unlabelled one, and the plan x came out with its three cases.
C11_Witness ==
    /\ GroupingExample
    /\ TESTS = <<Descriptor("f3"), Descriptor("f4"), Descriptor("f2"), Descriptor("f1")>>
    /\ Len(groups) = 2
    /\ OnePlanGroup(groups[2], <<"a", "b">>, <<"x">>, 3)

----------------------------------------------------------------------------
(* C12 *)

\* No level of the value is an absent optional or an error.
AllPresentAndOk(r) == \A i \in 1..Len(r) : r[i] \notin {"None", "Err"}

\* The values the bodies of the executed tests returned, with the success
\* the wrapper computed for each.
Returned ==
    {<<Executed[i].value[1], Executed[i].raw = "success">> :
        i \in {j \in 1..Len(Executed) : Executed[j].value # None}}

\* C12: the success of a returned value is true for unit; for an optional
\* it is true iff the value is present and its payload is successful; for a
\* result-or-error it is true iff it is the ok variant and its payload is
\* successful, at every level of nesting: a value is successful iff it is
\* present and ok all the way down to the unit. Ok(None) and Some(Err(e))
\* are failures, Ok(Some(())) is a success.
C12_SuccessContract ==
    /\ \A rs \in Returned :
        /\ rs[2] = AllPresentAndOk(rs[1])
        /\ rs[1] = <<"()">> => rs[2]
        /\ Head(rs[1]) \in {"None", "Err"} => ~rs[2]
        /\ (Head(rs[1]) \in {"Some", "Ok"} /\ Tail(rs[1]) \in {<<"None">>, <<"Err">>})
            => ~rs[2]
    /\ <<<<"Ok", "None">>, TRUE>> \notin Returned
    /\ <<<<"Some", "Err">>, TRUE>> \notin Returned
    /\ <<<<"Ok", "Some", "()">>, FALSE>> \notin Returned

\* One run in which bodies returned Ok(None), Some(Err(e)) and Ok(Some(())),
\* or a unit, and the wrapper judged each of them.
C12_Witness ==
    /\ <<<<"Some", "Err">>, FALSE>> \in Returned
    /\ \/ <<<<"Ok", "None">>, FALSE>> \in Returned
       \/ <<<<"Ok", "Some", "()">>, TRUE>> \in Returned
    /\ <<<<"()">>, TRUE>> \in Returned

----------------------------------------------------------------------------
(* C13 *)

\* Where a process can stand once main has called testify::run().
InRun ==
    pc \in {"setup", "config", "organize", "running", "cleanup", "summary",
            "returned", "exited", "panicked"}

\* C13: once main has started, it runs exactly one of two things: with the
\* toggle variable set it is in testify::run() or past it and never in the
\* user's main body; with the variable not set it is in the user's main body
\* or has returned from it, and nothing of run has happened: no hook and no
\* test was invoked, nothing was organized and no failure status was set.
C13_EntryPointSwitch ==
    pc # "ctor" =>
        IF toggle
        THEN InRun /\ pc # "main_body"
        ELSE /\ pc \in {"main_body", "returned"}
             /\ log = <<>>
             /\ groups = <<>>
             /\ SETUP = atStart.setup
             /\ CLEANUP = atStart.cleanup
             /\ exitCode \in {None, Some(0)}

\* The user's main body has run and returned in a program with registered
\* tests and hooks, none of which was invoked.
C13_Witness ==
    /\ ~toggle
    /\ pc = "returned"
    /\ TESTS # <<>>
    /\ SETUP # None
    /\ CLEANUP # None
    /\ log = <<>>

----------------------------------------------------------------------------
(* C14 *)

\* The executed cases are the first ones of organize's flattened output, in
\* its order, and none was executed twice.
ExecutedIsPrefix ==
    Executed # <<>> =>
        LET planned == Flat(organize(TESTS, config).result) IN
        /\ Len(Executed) <= Len(planned)
        /\ \A i \in 1..Len(Executed) : Executed[i].id = planned[i].function
        /\ \A i, j \in 1..Len(Executed) : Executed[i].id = Executed[j].id => i = j

\* C14: execution is sequential and in plan order: every step executes at
\* most one case, which comes behind the ones executed before it, and at
\* every moment the sequence of executed cases is a prefix of the flattened
\* output of organize (groups in order, plans in order within a group, cases
\* in order within a plan), no case twice and none out of order.
C14_SequentialInPlanOrder ==
    /\ []ExecutedIsPrefix
    /\ [][/\ Len(Executed') <= Len(Executed) + 1
          /\ \A i \in 1..Len(Executed) : Executed'[i] = Executed[i]]_vars

\* In the middle of a run of three tests registered in the reverse of their
\* plan order: the first two planned cases are executed, the third is next.
C14_Witness ==
    /\ TESTS = <<Descriptor("f2"), Descriptor("f1"), Descriptor("f4")>>
    /\ Len(Flat(groups)) = 3
    /\ ExecutedFns = <<"f4", "f1">>
    /\ pc = "running"
    /\ CurCase.function = "f2"

----------------------------------------------------------------------------
(* C15 *)

\* The slot a sequence of registrations leaves: empty when there was none,
\* otherwise the hook registered last.
LastOf(ctors) == IF ctors = <<>> THEN None ELSE Some(Last(ctors))

\* C15: each hook slot is single and the last write wins. Before main
\* starts, after any sequence of setup (respectively cleanup) registrations
\* the slot holds exactly the hook registered last; no registration fails:
\* every hook constructor that has not run yet can run, whatever the slot
\* holds; and the only hooks a run invokes are the setup hook registered last
\* and the cleanup hook registered last, each at most once.
C15_LastWriteWins ==
    /\ pc = "ctor" =>
        /\ SETUP = LastOf(hookCtors.setup)
        /\ CLEANUP = LastOf(hookCtors.cleanup)
        /\ \A h \in SetupFns : NotRun(hookCtors.setup, h) => ENABLED RegisterSetup(h)
        /\ \A h \in CleanupFns : NotRun(hookCtors.cleanup, h) => ENABLED RegisterCleanup(h)
    /\ \A i \in 1..Len(log) :
        /\ IsSetup(log[i]) => Some(log[i].id) = LastOf(hookCtors.setup)
        /\ IsCleanup(log[i]) => Some(log[i].id) = LastOf(hookCtors.cleanup)
        /\ \A j \in 1..Len(log) :
            (log[i].kind = log[j].kind /\ ~IsTest(log[i])) => i = j

\* Two setup hooks and two cleanup hooks were registered, in opposite
\* orders, and the run has invoked the last of each.
C15_Witness ==
    /\ hookCtors = [setup |-> <<"s1", "s2">>, cleanup |-> <<"c2", "c1">>]
    /\ \E i \in 1..Len(log) : IsSetup(log[i]) /\ log[i].id = "s2"
    /\ \E i \in 1..Len(log) : IsCleanup(log[i]) /\ log[i].id = "c1"

----------------------------------------------------------------------------
(* C16 *)

CleanupInvoked ==
    \E j \in 1..Len(log) : IsCleanup(log[j]) /\ log[j].id = atStart.cleanup[1]

\* C16: every way a run ends (all cases executed, fail-fast abort,
\* setup-hook failure, configuration error) passes through the cleanup step:
\* when the process of a run has ended and a cleanup hook was registered,
\* the hook has been invoked.
C16_EveryEndingCleansUp ==
    (toggle /\ Ended /\ atStart.cleanup # None) => CleanupInvoked

----------------------------------------------------------------------------
(* C17 *)

SetupInvoked == \E j \in 1..Len(log) : IsSetup(log[j])

CleanupTaken == \E j \in 1..Len(log) : IsCleanup(log[j])

\* C17 as stated: from the moment run starts, the descriptor list, the setup
\* slot and the cleanup slot hold the values they held when the run started.
C17_RegistriesReadOnly ==
    (toggle /\ pc # "ctor") =>
        /\ TESTS = atStart.tests
        /\ SETUP = atStart.setup
        /\ CLEANUP = atStart.cleanup

\* C17: from the moment run starts, the descriptor list holds the value it
\* held when the run started, and no test execution changes a registry; the
\* run controller changes a hook slot in one way only: the step that invokes
\* the setup (cleanup) hook empties the setup (cleanup) slot, which holds its
\* value of the start until then and is empty from then on.
C17_OnlyHooksTaken ==
    (toggle /\ pc # "ctor") =>
        /\ TESTS = atStart.tests
        /\ SETUP = IF SetupInvoked THEN None ELSE atStart.setup
        /\ CLEANUP = IF CleanupTaken THEN None ELSE atStart.cleanup

\* A run with both hooks registered has executed tests and returned: the
\* descriptors are as at the start, both slots are empty.
C17_Witness ==
    /\ toggle
    /\ pc = "returned"
    /\ Executed # <<>>
    /\ TESTS = atStart.tests
    /\ atStart.setup # None /\ SETUP = None
    /\ atStart.cleanup # None /\ CLEANUP = None

----------------------------------------------------------------------------
(* C18 *)

\* Strictly ascending order of two sequences of characters or of tags,
\* element by element, a proper prefix first.
Before(s, t) == CmpSeq(s, t) = Less

\* A test comes no later than another by the triple (tags, name, case).
TripleLeq(a, b) ==
    \/ Before(a.tags, b.tags)
    \/ a.tags = b.tags /\ Before(a.name, b.name)
    \/ a.tags = b.tags /\ a.name = b.name /\ ~Before(b.case, a.case)

\* C18: the flattened output of organize lists the retained descriptors in
\* ascending order of the triple (tags compared element by element, name,
\* case), a test without a case before every labelled case of its plan;
\* groups are in strictly ascending order of their tags, the plans of a group
\* in strictly ascending order of their names, and the cases of a plan in
\* non-decreasing order of their case labels.
C18_SortOrder ==
    pc # "organize" =>
        LET flat == Flat(groups) IN
        /\ \A i, j \in 1..Len(flat) : i < j => TripleLeq(flat[i], flat[j])
        /\ \A i, j \in 1..Len(flat) :
            (flat[i].tags = flat[j].tags /\ flat[i].name = flat[j].name
                /\ flat[i].case = None /\ flat[j].case # None) => i < j
        /\ \A i, j \in 1..Len(groups) : i < j => Before(groups[i].tags, groups[j].tags)
        /\ \A g \in 1..Len(groups) :
            LET plans == groups[g].test_plans IN
            /\ \A i, j \in 1..Len(plans) : i < j => Before(plans[i].name, plans[j].name)
            /\ \A p \in 1..Len(plans) : \A i, j \in 1..Len(plans[p].cases) :
                i < j => ~Before(plans[p].cases[j].case, plans[p].cases[i].case)

\* organize has returned, for three tests registered in the reverse of
\* their sorted order, two groups, the first of them with two plans.
C18_Witness ==
    /\ pc # "organize"
    /\ TESTS = <<Descriptor("f1"), Descriptor("f4"), Descriptor("f8")>>
    /\ Len(groups) = 2
    /\ Len(groups[1].test_plans) = 2
    /\ groups[1].test_plans[1].name = <<"x">>
    /\ groups[1].test_plans[2].name = <<"y">>
    /\ groups[2].tags = <<"a", "b">>

----------------------------------------------------------------------------
(* C19 *)

\* The registered tests the filter retains.
Retained == {t \in Range(TESTS) : Keep(t, config)}

\* C19: in the output of organize there is exactly one group per distinct
\* ordered tag sequence among the retained tests and, in the group of its
\* tags, exactly one plan per distinct (tags, name) pair; every case of a
\* plan has the plan's name and exactly the group's tag sequence, every
\* retained test is a case of the plan of its name in the group of its tags,
\* and tag order is significant: tests tagged [a,b] and [b,a] are in two
\* different groups.
C19_Bucketing ==
    pc # "organize" =>
        /\ {groups[g].tags : g \in 1..Len(groups)} = {t.tags : t \in Retained}
        /\ \A g, h \in 1..Len(groups) : groups[g].tags = groups[h].tags => g = h
        /\ \A g \in 1..Len(groups) :
            LET plans == groups[g].test_plans IN
            /\ {plans[p].name : p \in 1..Len(plans)} =
                    {t.name : t \in {r \in Retained : r.tags = groups[g].tags}}
            /\ \A p, q \in 1..Len(plans) : plans[p].name = plans[q].name => p = q
            /\ \A p \in 1..Len(plans) :
                /\ \A c \in 1..Len(plans[p].cases) :
                    /\ plans[p].cases[c].name = plans[p].name
                    /\ plans[p].cases[c].tags = groups[g].tags
                /\ Range(plans[p].cases) =
                    {r \in Retained : r.tags = groups[g].tags /\ r.name = plans[p].name}
        /\ \A t, u \in Retained :
            (t.tags = <<"a", "b">> /\ u.tags = <<"b", "a">>) =>
                \E g, h \in 1..Len(groups) :
                    /\ g # h
                    /\ t \in Range(FlatPlans(groups[g].test_plans))
                    /\ u \in Range(FlatPlans(groups[h].test_plans))

\* organize has returned a group tagged [a,b], whose one plan has two cases,
\* and another group tagged [b,a].
C19_Witness ==
    /\ pc # "organize"
    /\ Len(groups) = 2
    /\ groups[1].tags = <<"a", "b">>
    /\ Len(groups[1].test_plans) = 1
    /\ Len(groups[1].test_plans[1].cases) = 2
    /\ groups[2].tags = <<"b", "a">>

----------------------------------------------------------------------------
(* C20 *)

\* The step executes one case.
ExecutesOne == Len(Executed') = Len(Executed) + 1

\* C20: a step that executes a case whose status is Passed increments
\* successes by exactly one and leaves failures unchanged; a step that
\* executes a case with one of the four other statuses increments failures
\* by exactly one and leaves successes unchanged; no other step changes
\* either counter.
C20_Accounting ==
    [][IF ExecutesOne
        THEN LET status == Last(Executed').status IN
             /\ status \in TestStatus
             /\ status = Passed =>
                    successes' = successes + 1 /\ failures' = failures
             /\ status \in {Panicked, NotPanicked, Failed, NotFailed} =>
                    failures' = failures + 1 /\ successes' = successes
        ELSE successes' = successes /\ failures' = failures]_vars

\* Three cases were executed, one Passed, one NotFailed and one NotPanicked,
\* and the counters stand at one success and two failures.
C20_Witness ==
    /\ Len(Executed) = 3
    /\ {Executed[i].status : i \in 1..3} = {Passed, NotFailed, NotPanicked}
    /\ successes = 1
    /\ failures = 2

----------------------------------------------------------------------------
(* C21 *)

\* The announcements "Running N tests (M skipped)" printed so far.
Announcements == SelectSeq(stdout, LAMBDA l : l.line = "running")

\* C21: once organize has returned, run has announced "Running N tests (M
\* skipped)" exactly once, with N the number of cases of the organize output
\* (cases, not plans), which is the number of registered descriptors that
\* pass the filter, and M the number of registered descriptors minus N; the
\* subtraction does not underflow, M is not negative and N + M is the number
\* of registered descriptors.
C21_SkippedCount ==
    pc \notin {"organize", "panicked"} =>
        /\ Len(Announcements) = 1
        /\ LET N == Announcements[1].tests
               M == Announcements[1].skipped
           IN  /\ N = Len(Flat(groups))
               /\ N = Cardinality({i \in 1..Len(TESTS) : Keep(TESTS[i], config)})
               /\ M # None
               /\ M[1] \in Nat
               /\ N + M[1] = Len(TESTS)
               /\ M[1] = Cardinality({i \in 1..Len(TESTS) : ~Keep(TESTS[i], config)})

\* Three registered tests, of which the filter keeps the two cases of one
\* plan: "Running 2 tests (1 skipped)".
C21_Witness ==
    /\ Len(TESTS) = 3
    /\ Len(groups) = 1
    /\ Len(groups[1].test_plans) = 1
    /\ Len(Announcements) = 1
    /\ Announcements[1].tests = 2
    /\ Announcements[1].skipped = Some(1)

----------------------------------------------------------------------------
(* C22 *)

\* The lines printed about the cases: the one ahead of each call and the
\* outcome behind it.
CaseLines == SelectSeq(stdout, LAMBDA l : l.line \in {"start", "outcome"})

\* C22: for every executed case exactly one outcome is reported, after that
\* case finished and before the next case starts; the outcome is Ok if and
\* only if the status is Passed and Failed otherwise, and every outcome
\* line, Ok or Failed, carries the case's elapsed duration.
C22_PerCaseReporting ==
    /\ Len(CaseLines) = 2 * Len(Executed)
    /\ \A i \in 1..Len(Executed) :
        LET started == CaseLines[2 * i - 1]
            outcome == CaseLines[2 * i]
        IN  /\ started.line = "start" /\ started.id = Executed[i].id
            /\ outcome.line = "outcome" /\ outcome.id = Executed[i].id
            /\ outcome.text = "Ok." <=> Executed[i].status = Passed
            /\ outcome.text = "Failed!" <=> Executed[i].status # Passed
            /\ outcome.duration

----------------------------------------------------------------------------
(* C23 *)

\* C23: organize neither loses nor duplicates a test and builds no empty
\* container: the cases of all plans of all groups, taken together, are
\* exactly the registered descriptors that pass the filter, each of them
\* exactly once; every group has at least one plan and every plan at least
\* one case; and the branch panic!("This code shouldn't be running.") is not
\* taken.
C23_NoLossNoEmpty ==
    pc # "organize" =>
        LET flat == Flat(groups) IN
        /\ pc # "panicked"
        /\ ~organize(TESTS, config).panicked
        /\ Range(flat) = Retained
        /\ Len(flat) = Cardinality(Retained)
        /\ \A i, j \in 1..Len(flat) : flat[i] = flat[j] => i = j
        /\ \A g \in 1..Len(groups) :
            /\ groups[g].test_plans # <<>>
            /\ \A p \in 1..Len(groups[g].test_plans) :
                groups[g].test_plans[p].cases # <<>>

\* organize has returned two groups holding the two tests that the filter
\* kept of the three registered.
C23_Witness ==
    /\ pc # "organize"
    /\ Len(TESTS) = 3
    /\ Cardinality(Retained) = 2
    /\ Len(groups) = 2
    /\ Len(Flat(groups)) = 2

----------------------------------------------------------------------------
(* C24 *)

\* C24: in every state of a run with config.fail_fast true, failures is 0
\* or 1, and if it is 1 the failing case is the last case that was executed:
\* its status is not Passed and every case executed before it passed.
C24_FailFastAtMostOne ==
    (toggle /\ config.fail_fast) =>
        /\ failures \in {0, 1}
        /\ failures = 1 =>
            /\ Executed # <<>>
            /\ Last(Executed).status # Passed
            /\ \A i \in 1..(Len(Executed) - 1) : Executed[i].status = Passed
        /\ failures = 0 => \A i \in 1..Len(Executed) : Executed[i].status = Passed

\* A fail-fast run has ended with one failure, the second of three planned
\* cases, behind a case that passed.
C24_Witness ==
    /\ toggle
    /\ config.fail_fast
    /\ Ended
    /\ failures = 1
    /\ successes = 1
    /\ Len(Executed) = 2
    /\ Len(Flat(groups)) = 3
    /\ Last(Executed).status \in {NotFailed, NotPanicked}

----------------------------------------------------------------------------
(* C25 *)

IsHook(e) == IsSetup(e) \/ IsCleanup(e)

\* The hook invocations so far, in order.
HookCalls == SelectSeq(log, IsHook)

\* A hook that was invoked is no longer in its slot, and no hook was invoked
\* more than once.
OneShot ==
    /\ SetupInvoked => SETUP = None
    /\ CleanupTaken => CLEANUP = None
    /\ \A i, j \in 1..Len(HookCalls) : HookCalls[i].id = HookCalls[j].id => i = j

\* C25: hooks are one-shot: run removes the setup and cleanup callables
\* from their slots when it invokes them, so each registered hook is invoked
\* at most once per process, and no step of a second or later call of run,
\* with no registration in between, invokes a hook.
C25_HooksOneShot ==
    /\ []OneShot
    /\ [][calls >= 2 => HookCalls' = HookCalls]_vars

\* A process with both hooks registered has called run twice and both calls
\* have returned: tests ran in both, each hook was invoked once.
C25_Witness ==
    /\ calls = 2
    /\ pc = "returned"
    /\ atStart.setup # None
    /\ atStart.cleanup # None
    /\ Len(HookCalls) = 2
    /\ Len(Executed) = 4

----------------------------------------------------------------------------
(* C26 *)

\* The calls of lock() user code has made, in order.
LockCalls == SelectSeq(log, IsLock)

\* run is between its snapshot of TESTS and its end.
TestPhase == pc \in {"running", "cleanup", "summary"}

\* C26: run holds the lock of TESTS from the organize snapshot until run
\* ends, through every test execution and the cleanup hook, and not before
\* the snapshot; it holds the lock of SETUP (CLEANUP) while that hook
\* executes. Hence no registration into TESTS can complete during the test
\* phase; a test function or hook never acquires a registry that run holds:
\* not TESTS from a test function, not SETUP from the setup hook, neither
\* TESTS nor CLEANUP from the cleanup hook; and when such a call of lock()
\* blocks, run takes no further step.
C26_LocksAcrossUserCode ==
    /\ TestPhase => "TESTS" \in held
    /\ pc \in {"setup", "config", "organize"} => "TESTS" \notin held
    /\ TestPhase => \A f \in RunFns : ~ENABLED LateRegister(f)
    /\ \A i \in 1..Len(LockCalls) :
        LET e == LockCalls[i] IN
        /\ (e.status = "test" /\ e.id = "TESTS") => e.raw # "acquired"
        /\ (e.status = "setup" /\ e.id = "SETUP") => e.raw # "acquired"
        /\ (e.status = "cleanup" /\ e.id \in {"TESTS", "CLEANUP"}) => e.raw # "acquired"
        /\ e.raw = "blocked" =>
            /\ pc = "blocked"
            /\ i = Len(LockCalls)
            /\ e.id \in held
            /\ ~ENABLED RunSteps
    /\ pc = "blocked" => LockCalls # <<>> /\ Last(LockCalls).raw = "blocked"

\* The second test function of a run called TESTS.lock() and blocks in it:
\* one case was executed, TESTS is held, the process is alive and stuck.
C26_Witness ==
    /\ pc = "blocked"
    /\ Len(Executed) = 1
    /\ Len(Flat(groups)) = 2
    /\ Last(LockCalls).status = "test"
    /\ Last(LockCalls).id = "TESTS"
    /\ "TESTS" \in held
    /\ exitCode = None

============================================================================
